---- MODULE Spec2Model ----
(***************************************************************************)
(* A model of src/main.py: the m3u8 downloader.  The main thread fetches   *)
(* the playlist, parses it into chunk URLs, downloads the chunks on a      *)
(* ThreadPoolExecutor, builds file_list.txt from the '.ts' files of the    *)
(* working directory, runs ffmpeg on it and removes the working directory. *)
(*                                                                         *)
(* Python str values are sequences of one-character strings, so that       *)
(* splitlines, startswith, urljoin, urlparse, basename, endswith and       *)
(* sorted are computed and not assumed.                                    *)
(***************************************************************************)
EXTENDS Naturals, Sequences, FiniteSets, TLC

VARIABLES
    pc,              \* position of the main thread in __main__ / download_m3u8
    compress,        \* args.compress
    playlist,        \* environment: what the playlist URL answers
    m3u8_content,    \* download_m3u8: the response text
    http_status,     \* status code of the playlist response (never read by the code)
    ts_urls,         \* download_m3u8: the chunk URLs
    max_workers,     \* executor._max_workers
    num_threads,     \* len(executor._threads)
    idle_semaphore,  \* executor._idle_semaphore
    submitted,       \* len(futures) so far: futures 1..submitted exist
    task,            \* per chunk: the state of its work item / future
    response,        \* per chunk: status code of the response session.get returned
    failures,        \* per chunk: the cause printed by the except clause, or "none"
    completed,       \* the finished futures not yet yielded, in the order they finished
    snapshot,        \* as_completed: its list 'finished', the futures done before the call
    pending,         \* as_completed: its set 'pending'
    progress_n,      \* progress_bar.n
    output_dir,      \* the working directory 'output'
    found_dir,       \* the working directory as the run found it
    ts_files,        \* create_file_list: the sorted listing
    file_list,       \* the manifest file 'file_list.txt'
    list_calls,      \* how many times create_file_list was called
    written,         \* create_file_list: how many ts_files its loop has written
    ffmpeg_input,    \* execute_ffmpeg_command: its argument input_file
    ffmpeg_output,   \* execute_ffmpeg_command: its argument output_file
    command,         \* execute_ffmpeg_command: the command line
    ffmpeg_runs,     \* how many times subprocess.run was called
    ffmpeg_result,   \* how the encoder ended
    encode_reported, \* what execute_ffmpeg_command gave its caller
    printed,         \* the stage messages the main thread printed
    uncaught,        \* where an exception left the program, or "none"
    exit_status      \* the process exit status, once pc = "exited"

vars == <<pc, compress, playlist, found_dir, ffmpeg_input, ffmpeg_output,
          list_calls, written, m3u8_content, http_status, ts_urls, max_workers,
          num_threads, idle_semaphore, submitted, task, response, failures,
          completed, snapshot, pending, progress_n, output_dir, ts_files,
          file_list, command, ffmpeg_runs, ffmpeg_result, encode_reported,
          printed, uncaught, exit_status>>

(***************************************************************************)
(* Bounds of the model.                                                    *)
(***************************************************************************)
MaxLines == 2        \* lines of a playlist in the full pipeline
MaxParseLines == 4   \* lines of a playlist when only the parser runs
MaxPoolWidth == 2    \* widest pool of the pool-width specification
MaxCalls == 2        \* calls of create_file_list when it is run again

(***************************************************************************)
(* Program constants.                                                      *)
(***************************************************************************)
MaxWorkers == 10     \* ThreadPoolExecutor(max_workers=10)

OutputFolder == <<"o", "u", "t", "p", "u", "t">>              \* 'output'

\* The playlist URL given on the command line: http://h/p/l
M3u8Url == <<"h", "t", "t", "p", ":", "/", "/", "h", "/", "p", "/", "l">>

(***************************************************************************)
(* Python str helpers.                                                     *)
(***************************************************************************)
\* The characters the model's strings use, in code-point order.
CodePoints == <<"\n", "\r", " ", "#", "'", ".", "/", "0", "1", "2", "4", ":",
                "?", "F", "a", "b", "c", "d", "e", "f", "h", "i", "l", "m",
                "o", "p", "s", "t", "u">>

ord(c) == CHOOSE k \in 1..Len(CodePoints) : CodePoints[k] = c

Min(a, b) == IF a < b THEN a ELSE b

\* str.__lt__: lexicographic by code point, a proper prefix sorts first.
StrLess(a, b) ==
    \E k \in 1..(Min(Len(a), Len(b)) + 1) :
        /\ \A j \in 1..(k - 1) : a[j] = b[j]
        /\ \/ k > Len(a) /\ k <= Len(b)
           \/ k <= Len(a) /\ k <= Len(b) /\ ord(a[k]) < ord(b[k])

startswith(s, prefix) ==
    /\ Len(s) >= Len(prefix)
    /\ SubSeq(s, 1, Len(prefix)) = prefix

endswith(s, suffix) ==
    /\ Len(s) >= Len(suffix)
    /\ SubSeq(s, Len(s) - Len(suffix) + 1, Len(s)) = suffix

\* The least index >= from at which s holds one of the characters cs, or 0.
Find(s, cs, from) ==
    IF \E i \in from..Len(s) : s[i] \in cs
    THEN CHOOSE i \in from..Len(s) :
             s[i] \in cs /\ \A j \in from..(i - 1) : s[j] \notin cs
    ELSE 0

\* The greatest index at which s holds c, or 0.
RFind(s, c) ==
    IF \E i \in 1..Len(s) : s[i] = c
    THEN CHOOSE i \in 1..Len(s) : s[i] = c /\ \A j \in (i + 1)..Len(s) : s[j] # c
    ELSE 0

\* str.splitlines(): split at \n, \r and \r\n; no empty string after a final
\* line boundary.
RECURSIVE splitlines(_)
splitlines(text) ==
    IF text = <<>> THEN <<>>
    ELSE LET j == Find(text, {"\n", "\r"}, 1) IN
         IF j = 0 THEN <<text>>
         ELSE LET crlf == text[j] = "\r" /\ j < Len(text) /\ text[j + 1] = "\n"
                  rest == SubSeq(text, (IF crlf THEN j + 2 ELSE j + 1), Len(text))
              IN  <<SubSeq(text, 1, j - 1)>> \o splitlines(rest)

(***************************************************************************)
(* urllib.parse and os.path, on the URL shapes the inputs use:             *)
(* scheme://host/path[?query], and references that are a relative path, a  *)
(* rooted path or a full URL.                                              *)
(***************************************************************************)
\* The index of the ':' of a leading "scheme://", or 0.
SchemeColon(url) ==
    LET i == Find(url, {":", "/", "?", "#"}, 1) IN
    IF /\ i > 1
       /\ url[i] = ":"
       /\ Len(url) >= i + 2
       /\ url[i + 1] = "/"
       /\ url[i + 2] = "/"
    THEN i ELSE 0

\* The index at which the path of an absolute URL starts (Len + 1: no path).
PathStart(url) ==
    LET i == Find(url, {"/", "?", "#"}, SchemeColon(url) + 3) IN
    IF i = 0 THEN Len(url) + 1 ELSE i

\* urlparse(url).path
urlparse_path(url) ==
    LET from == IF SchemeColon(url) = 0 THEN 1 ELSE PathStart(url)
        stop == Find(url, {"?", "#"}, from)
    IN  SubSeq(url, from, (IF stop = 0 THEN Len(url) ELSE stop - 1))

\* urljoin(base, ref) for a non-empty ref without dot segments.
urljoin(base, ref) ==
    IF SchemeColon(ref) # 0 THEN ref
    ELSE IF ref[1] = "/" THEN SubSeq(base, 1, PathStart(base) - 1) \o ref
    ELSE LET stop == Find(base, {"?", "#"}, PathStart(base))
             hier == SubSeq(base, 1, (IF stop = 0 THEN Len(base) ELSE stop - 1))
         IN  SubSeq(hier, 1, RFind(hier, "/")) \o ref

\* os.path.basename
basename(p) == SubSeq(p, RFind(p, "/") + 1, Len(p))

\* os.path.join(a, b) for a relative b
path_join(a, b) == a \o <<"/">> \o b


(***************************************************************************)
(* The inputs: what the playlist URL answers, the command line, and the    *)
(* working directory the run finds.                                        *)
(***************************************************************************)
Blank == <<>>
Directive == <<"#", "E">>                                      \* #E
SegA == <<"a", ".", "t", "s">>                                 \* a.ts
SegB == <<"b", ".", "t", "s">>                                 \* b.ts
SegDirA == <<"d", "/", "a", ".", "t", "s">>                    \* d/a.ts
SegQuery == <<"b", ".", "t", "s", "?", "t">>                   \* b.ts?t
SegRooted == <<"/", "c", ".", "m", "4">>                       \* /c.m4
SegFull == <<"h", "t", "t", "p", ":", "/", "/", "c", "/", "a", ".", "t", "s">>
NotFoundPage == <<"4", "0", "4">>                              \* the body of an error page

LF == <<"\n">>
CRLF == <<"\r", "\n">>

\* The lines of the playlists of the full pipeline, and of the parser alone.
Lines == {Directive, SegB, SegDirA}
ParseLines == {Blank, Directive, SegA, SegQuery, SegRooted, SegFull}

SeqsUpTo(S, n) == UNION {[1..k -> S] : k \in 0..n}

\* The k-th chunk line of the pool-width playlists: s0.ts, s1.ts, ...
Digits == <<"0", "1", "2", "4">>
PoolLine(k) == <<"s", Digits[k], ".", "t", "s">>

\* The response body: every line followed by the line terminator.
RECURSIVE Text(_, _)
Text(lines, eol) ==
    IF lines = <<>> THEN <<>>
    ELSE Head(lines) \o eol \o Text(Tail(lines), eol)

\* What the playlist URL can answer: the request raises, an error status with
\* an error page, or status 200 with a playlist.
Answers(lineSeqs, eols) ==
    {[outcome |-> "raises", status |-> 0, lines |-> <<>>, eol |-> LF]}
    \cup {[outcome |-> "response", status |-> 404, lines |-> <<NotFoundPage>>, eol |-> LF]}
    \cup {[outcome |-> "response", status |-> 200, lines |-> l, eol |-> e] :
              l \in lineSeqs, e \in eols}

NoFiles == [n \in {} |-> "none"]
AbsentDir == [exists |-> FALSE, files |-> NoFiles]
\* A directory a run that ended before its cleanup left behind.
StaleDir == [exists |-> TRUE, files |-> [n \in {SegA} |-> [src |-> 0, data |-> "body"]]]

InitWith(answers, flags, widths, dirs) ==
    /\ pc = "fetch_playlist"
    /\ compress \in flags
    /\ playlist \in answers
    /\ max_workers \in widths
    /\ output_dir \in dirs
    /\ found_dir = output_dir
    /\ m3u8_content = <<>>
    /\ http_status = 0
    /\ ts_urls = <<>>
    /\ num_threads = 0
    /\ idle_semaphore = 0
    /\ submitted = 0
    /\ task = <<>>
    /\ response = <<>>
    /\ failures = <<>>
    /\ completed = <<>>
    /\ snapshot = {}
    /\ pending = {}
    /\ progress_n = 0
    /\ ts_files = <<>>
    /\ file_list = [exists |-> FALSE, open |-> FALSE, lines |-> <<>>]
    /\ list_calls = 0
    /\ written = 0
    /\ ffmpeg_input = ""
    /\ ffmpeg_output = ""
    /\ command = <<>>
    /\ ffmpeg_runs = 0
    /\ ffmpeg_result = "none"
    /\ encode_reported = "none"
    /\ printed = {}
    /\ uncaught = "none"
    /\ exit_status = 0

Init == InitWith(Answers(SeqsUpTo(Lines, MaxLines), {LF}), BOOLEAN, {MaxWorkers},
                 {AbsentDir, StaleDir})

\* A playlist of n chunk lines.
PoolAnswer(n) ==
    [outcome |-> "response", status |-> 200,
     lines |-> [k \in 1..n |-> PoolLine(k)], eol |-> LF]

\* Pools of every width up to MaxPoolWidth, each with playlists of up to one
\* chunk more than the pool is wide.
InitPool ==
    \E w \in 1..MaxPoolWidth :
        InitWith({PoolAnswer(n) : n \in 1..(w + 1)}, {FALSE}, {w}, {AbsentDir})

\* Playlists of every mixture of blank, directive and chunk lines.
InitParse == InitWith(Answers(SeqsUpTo(ParseLines, MaxParseLines), {LF, CRLF}),
                      BOOLEAN, {MaxWorkers}, {AbsentDir})

(***************************************************************************)
(* download_m3u8, lines 33-45: fetch and parse.                            *)
(***************************************************************************)
\* An exception nobody catches ends the process with status 1.
Crash(where) ==
    /\ uncaught' = where
    /\ pc' = "exited"
    /\ exit_status' = 1

IsChunkLine_KeepsDirectives(line) == line # <<>>

\* if line and not line.startswith("#")
IsChunkLine(line) == line # <<>> /\ ~startswith(line, <<"#">>)

\* [urljoin(m3u8_url, line) for line in lines if line and not line.startswith("#")]
RECURSIVE ChunkUrls(_, _)
ChunkUrls(m3u8_url, lines) ==
    IF lines = <<>> THEN <<>>
    ELSE (IF IsChunkLine(Head(lines)) THEN <<urljoin(m3u8_url, Head(lines))>> ELSE <<>>)
         \o ChunkUrls(m3u8_url, Tail(lines))

FetchPlaylist_CreatesDirectory ==
    /\ pc = "fetch_playlist"
    /\ output_dir' = [exists |-> TRUE, files |-> output_dir.files]
    /\ IF playlist.outcome = "raises"
       THEN /\ Crash("playlist_fetch")
            /\ UNCHANGED <<m3u8_content, http_status>>
       ELSE /\ m3u8_content' = Text(playlist.lines, playlist.eol)
            /\ http_status' = playlist.status
            /\ pc' = "makedirs"
            /\ UNCHANGED <<uncaught, exit_status>>
    /\ UNCHANGED <<compress, playlist, found_dir, ffmpeg_input, ffmpeg_output,
                   list_calls, written, ts_urls, max_workers, num_threads,
                   idle_semaphore, submitted, task, response, failures,
                   completed, snapshot, pending, progress_n, ts_files,
                   file_list, command, ffmpeg_runs, ffmpeg_result,
                   encode_reported, printed>>

\* session.get(m3u8_url).text: the status of the response is not looked at.
FetchPlaylist ==
    /\ pc = "fetch_playlist"
    /\ IF playlist.outcome = "raises"
       THEN /\ Crash("playlist_fetch")
            /\ UNCHANGED <<m3u8_content, http_status>>
       ELSE /\ m3u8_content' = Text(playlist.lines, playlist.eol)
            /\ http_status' = playlist.status
            /\ pc' = "makedirs"
            /\ UNCHANGED <<uncaught, exit_status>>
    /\ UNCHANGED <<compress, playlist, found_dir, ffmpeg_input, ffmpeg_output,
                   list_calls, written, ts_urls, max_workers, num_threads,
                   idle_semaphore, submitted, task, response, failures,
                   completed, snapshot, pending, progress_n, output_dir,
                   ts_files, file_list, command, ffmpeg_runs, ffmpeg_result,
                   encode_reported, printed>>

\* os.makedirs(output_folder, exist_ok=True)
Makedirs ==
    /\ pc = "makedirs"
    /\ output_dir' = IF output_dir.exists THEN output_dir
                     ELSE [exists |-> TRUE, files |-> NoFiles]
    /\ pc' = "parse"
    /\ UNCHANGED <<compress, playlist, found_dir, ffmpeg_input, ffmpeg_output,
                   list_calls, written, m3u8_content, http_status, ts_urls,
                   max_workers, num_threads, idle_semaphore, submitted, task,
                   response, failures, completed, snapshot, pending, progress_n,
                   ts_files, file_list, command, ffmpeg_runs, ffmpeg_result,
                   encode_reported, printed, uncaught, exit_status>>

\* lines 44-45, and the executor of line 48 with no future yet
ParsePlaylist ==
    /\ pc = "parse"
    /\ ts_urls' = ChunkUrls(M3u8Url, splitlines(m3u8_content))
    /\ task' = [i \in 1..Len(ts_urls') |-> "unsubmitted"]
    /\ response' = [i \in 1..Len(ts_urls') |-> 0]
    /\ failures' = [i \in 1..Len(ts_urls') |-> "none"]
    /\ pc' = "submit"
    /\ UNCHANGED <<compress, playlist, found_dir, ffmpeg_input, ffmpeg_output,
                   list_calls, written, m3u8_content, http_status, max_workers,
                   num_threads, idle_semaphore, submitted, completed, snapshot,
                   pending, progress_n, output_dir, ts_files, file_list,
                   command, ffmpeg_runs, ffmpeg_result, encode_reported,
                   printed, uncaught, exit_status>>

NextParse == FetchPlaylist \/ Makedirs \/ ParsePlaylist

SpecParse == InitParse /\ [][NextParse]_vars

(***************************************************************************)
(* download_m3u8, lines 48-49: the executor and the submissions.           *)
(***************************************************************************)
Chunks == 1..Len(ts_urls)

\* A work item a worker thread is running.
Running(i) == task[i] \in {"fetching", "fetched", "writing"}
InFlight == {i \in Chunks : Running(i)}

Finished_Always(i) == TRUE

\* A future in state FINISHED.
Finished(i) == task[i] \in {"done", "raised"}

SpawnsThread_Unbounded == idle_semaphore = 0

\* ThreadPoolExecutor._adjust_thread_count: a new thread only when no worker is
\* idle and the pool is not at its width.
SpawnsThread == idle_semaphore = 0 /\ num_threads < max_workers

\* executor.submit(download_ts_segment, ts_url, output_folder, session)
Submit ==
    /\ pc = "submit"
    /\ submitted < Len(ts_urls)
    /\ submitted' = submitted + 1
    /\ task' = [task EXCEPT ![submitted + 1] = "queued"]
    /\ num_threads' = IF SpawnsThread THEN num_threads + 1 ELSE num_threads
    /\ idle_semaphore' = IF idle_semaphore > 0 THEN idle_semaphore - 1 ELSE 0
    /\ UNCHANGED <<pc, compress, playlist, found_dir, ffmpeg_input,
                   ffmpeg_output, list_calls, written, m3u8_content,
                   http_status, ts_urls, max_workers, response, failures,
                   completed, snapshot, pending, progress_n, output_dir,
                   ts_files, file_list, command, ffmpeg_runs, ffmpeg_result,
                   encode_reported, printed, uncaught, exit_status>>

(***************************************************************************)
(* download_ts_segment, lines 17-31, run by a worker thread.               *)
(***************************************************************************)
Filename_Fixed(i) == <<"s", ".", "t", "s">>

\* os.path.basename(urlparse(ts_url).path)
Filename(i) == basename(urlparse_path(ts_urls[i]))

\* os.path.join(output_folder, filename)
OutputPath(i) == path_join(OutputFolder, Filename(i))

\* The work item ends and its future becomes FINISHED; the worker then
\* releases the idle semaphore.
Finish(i, state, cause) ==
    /\ task' = [task EXCEPT ![i] = state]
    /\ failures' = [failures EXCEPT ![i] = cause]
    /\ completed' = Append(completed, i)
    /\ idle_semaphore' = idle_semaphore + 1

Except_Reraises(i, cause) == Finish(i, "raised", cause)

\* except Exception as e: print(...).  The function returns None.
Except(i, cause) == Finish(i, "done", cause)

\* A free worker thread takes the oldest work item of the queue.
Start(i) ==
    /\ task[i] = "queued"
    /\ \A j \in 1..(i - 1) : task[j] # "queued"
    /\ Cardinality(InFlight) < num_threads
    /\ task' = [task EXCEPT ![i] = "fetching"]
    /\ UNCHANGED <<pc, compress, playlist, found_dir, ffmpeg_input,
                   ffmpeg_output, list_calls, written, m3u8_content,
                   http_status, ts_urls, max_workers, num_threads,
                   idle_semaphore, submitted, response, failures, completed,
                   snapshot, pending, progress_n, output_dir, ts_files,
                   file_list, command, ffmpeg_runs, ffmpeg_result,
                   encode_reported, printed, uncaught, exit_status>>

Get_RaisesForStatus(i, status) ==
    /\ task[i] = "fetching"
    /\ response' = [response EXCEPT ![i] = status]
    /\ IF status = 200
       THEN /\ task' = [task EXCEPT ![i] = "fetched"]
            /\ UNCHANGED <<failures, completed, idle_semaphore>>
       ELSE Except(i, "status")
    /\ UNCHANGED <<pc, compress, playlist, found_dir, ffmpeg_input,
                   ffmpeg_output, list_calls, written, m3u8_content,
                   http_status, ts_urls, max_workers, num_threads, submitted,
                   snapshot, pending, progress_n, output_dir, ts_files,
                   file_list, command, ffmpeg_runs, ffmpeg_result,
                   encode_reported, printed, uncaught, exit_status>>

\* session.get(ts_url).content returns: a response of any status is taken.
Get(i, status) ==
    /\ task[i] = "fetching"
    /\ response' = [response EXCEPT ![i] = status]
    /\ task' = [task EXCEPT ![i] = "fetched"]
    /\ UNCHANGED <<pc, compress, playlist, found_dir, ffmpeg_input,
                   ffmpeg_output, list_calls, written, m3u8_content,
                   http_status, ts_urls, max_workers, num_threads,
                   idle_semaphore, submitted, failures, completed, snapshot,
                   pending, progress_n, output_dir, ts_files, file_list,
                   command, ffmpeg_runs, ffmpeg_result, encode_reported,
                   printed, uncaught, exit_status>>

\* The directory with file name holding data written by chunk i.
WithFile(dir, name, i, data) ==
    [dir EXCEPT !.files = [n \in DOMAIN dir.files \cup {name} |->
                              IF n = name THEN [src |-> i, data |-> data]
                              ELSE dir.files[n]]]

GetRaises_LeavesFile(i) ==
    /\ task[i] = "fetching"
    /\ Except(i, "network")
    /\ output_dir' = WithFile(output_dir, Filename(i), i, "empty")
    /\ UNCHANGED <<pc, compress, playlist, found_dir, ffmpeg_input,
                   ffmpeg_output, list_calls, written, m3u8_content,
                   http_status, ts_urls, max_workers, num_threads, submitted,
                   response, snapshot, pending, progress_n, ts_files, file_list,
                   command, ffmpeg_runs, ffmpeg_result, encode_reported,
                   printed, uncaught, exit_status>>

\* session.get(ts_url) raises (connection refused, timeout, ...).
GetRaises(i) ==
    /\ task[i] = "fetching"
    /\ Except(i, "network")
    /\ UNCHANGED <<pc, compress, playlist, found_dir, ffmpeg_input,
                   ffmpeg_output, list_calls, written, m3u8_content,
                   http_status, ts_urls, max_workers, num_threads, submitted,
                   response, snapshot, pending, progress_n, output_dir,
                   ts_files, file_list, command, ffmpeg_runs, ffmpeg_result,
                   encode_reported, printed, uncaught, exit_status>>

\* open(output_path, 'wb'): creates or truncates the file.  It raises when the
\* path names the directory itself (an empty file name) or the system refuses.
Open(i, r) ==
    /\ task[i] = "fetched"
    /\ IF r = "raises" \/ Filename(i) = <<>>
       THEN /\ Except(i, "open")
            /\ UNCHANGED output_dir
       ELSE /\ output_dir' = WithFile(output_dir, Filename(i), i, "empty")
            /\ task' = [task EXCEPT ![i] = "writing"]
            /\ UNCHANGED <<failures, completed, idle_semaphore>>
    /\ UNCHANGED <<pc, compress, playlist, found_dir, ffmpeg_input,
                   ffmpeg_output, list_calls, written, m3u8_content,
                   http_status, ts_urls, max_workers, num_threads, submitted,
                   response, snapshot, pending, progress_n, ts_files, file_list,
                   command, ffmpeg_runs, ffmpeg_result, encode_reported,
                   printed, uncaught, exit_status>>

\* output_file.write(ts_content) and the close of the with block.  A write
\* that raises leaves the file it opened.
Write(i, r) ==
    /\ task[i] = "writing"
    /\ IF r = "raises"
       THEN /\ Except(i, "write")
            /\ output_dir' = WithFile(output_dir, Filename(i), i, "partial")
       ELSE /\ Finish(i, "done", "none")
            /\ output_dir' = WithFile(output_dir, Filename(i), i, "body")
    /\ UNCHANGED <<pc, compress, playlist, found_dir, ffmpeg_input,
                   ffmpeg_output, list_calls, written, m3u8_content,
                   http_status, ts_urls, max_workers, num_threads, submitted,
                   response, snapshot, pending, progress_n, ts_files, file_list,
                   command, ffmpeg_runs, ffmpeg_result, encode_reported,
                   printed, uncaught, exit_status>>

Worker ==
    \E i \in Chunks :
        \/ Start(i)
        \/ \E status \in {200, 404} : Get(i, status)
        \/ GetRaises(i)
        \/ \E r \in {"ok", "raises"} : Open(i, r)
        \/ \E r \in {"ok", "raises"} : Write(i, r)

(***************************************************************************)
(* download_m3u8, lines 51-56: the progress loop and the end of the with   *)
(* blocks.                                                                 *)
(***************************************************************************)
Range(s) == {s[k] : k \in 1..Len(s)}

\* as_completed(futures) is entered: the futures already finished go to its
\* list 'finished', the others to 'pending'.
AsCompleted ==
    /\ pc = "submit"
    /\ submitted = Len(ts_urls)
    /\ snapshot' = {i \in Chunks : Finished(i)}
    /\ pending' = Chunks \ snapshot'
    /\ pc' = "progress"
    /\ UNCHANGED <<compress, playlist, found_dir, ffmpeg_input, ffmpeg_output,
                   list_calls, written, m3u8_content, http_status, ts_urls,
                   max_workers, num_threads, idle_semaphore, submitted, task,
                   response, failures, completed, progress_n, output_dir,
                   ts_files, file_list, command, ffmpeg_runs, ffmpeg_result,
                   encode_reported, printed, uncaught, exit_status>>

Yieldable_AnyFinished == Range(completed)

Yieldable_OnlyFinishedFirst == snapshot

\* The futures as_completed may yield next: those of 'finished', which was a
\* set, in any order; after them the others in the order they finished.
Yieldable ==
    IF snapshot # {} THEN snapshot
    ELSE IF completed # <<>> THEN {Head(completed)}
    ELSE {}

\* for future in as_completed(futures): future.result(); progress_bar.update(1)
Progress(i) ==
    /\ pc = "progress"
    /\ i \in Yieldable
    /\ snapshot' = snapshot \ {i}
    /\ pending' = pending \ {i}
    /\ completed' = SelectSeq(completed, LAMBDA j : j # i)
    /\ IF task[i] = "raised"
       THEN /\ Crash("future_result")
            /\ UNCHANGED progress_n
       ELSE /\ progress_n' = progress_n + 1
            /\ UNCHANGED <<pc, uncaught, exit_status>>
    /\ UNCHANGED <<compress, playlist, found_dir, ffmpeg_input, ffmpeg_output,
                   list_calls, written, m3u8_content, http_status, ts_urls,
                   max_workers, num_threads, idle_semaphore, submitted, task,
                   response, failures, output_dir, ts_files, file_list, command,
                   ffmpeg_runs, ffmpeg_result, encode_reported, printed>>

\* 'finished' and 'pending' are empty: the loop and the tqdm block end.
LoopEnd ==
    /\ pc = "progress"
    /\ snapshot = {}
    /\ pending = {}
    /\ pc' = "shutdown"
    /\ UNCHANGED <<compress, playlist, found_dir, ffmpeg_input, ffmpeg_output,
                   list_calls, written, m3u8_content, http_status, ts_urls,
                   max_workers, num_threads, idle_semaphore, submitted, task,
                   response, failures, completed, snapshot, pending, progress_n,
                   output_dir, ts_files, file_list, command, ffmpeg_runs,
                   ffmpeg_result, encode_reported, printed, uncaught,
                   exit_status>>

\* The end of the executor's with block, executor.shutdown(wait=True), joins
\* the worker threads, which end; then line 56 prints and download_m3u8
\* returns, dropping the executor.
Shutdown ==
    /\ pc = "shutdown"
    /\ \A i \in Chunks : Finished(i)
    /\ num_threads' = 0
    /\ idle_semaphore' = 0
    /\ printed' = printed \cup {"downloaded"}
    /\ pc' = "listdir"
    /\ UNCHANGED <<compress, playlist, found_dir, ffmpeg_input, ffmpeg_output,
                   list_calls, written, m3u8_content, http_status, ts_urls,
                   max_workers, submitted, task, response, failures, completed,
                   snapshot, pending, progress_n, output_dir, ts_files,
                   file_list, command, ffmpeg_runs, ffmpeg_result,
                   encode_reported, uncaught, exit_status>>

(***************************************************************************)
(* create_file_list, lines 58-64.                                          *)
(***************************************************************************)
\* sorted(S) for a set of str
RECURSIVE sorted(_)
sorted(S) ==
    IF S = {} THEN <<>>
    ELSE LET least == CHOOSE x \in S : \A y \in S \ {x} : StrLess(x, y)
         IN  <<least>> \o sorted(S \ {least})

TsListing_OnlyComplete(dir) ==
    {f \in DOMAIN dir.files : endswith(f, <<".", "t", "s">>) /\ dir.files[f].data = "body"}

\* [f for f in os.listdir(output_folder) if f.endswith('.ts')]
TsListing(dir) == {f \in DOMAIN dir.files : endswith(f, <<".", "t", "s">>)}

\* f"file '{os.path.join(output_folder, ts_file)}'\n"
ManifestLine(output_folder, ts_file) ==
    <<"f", "i", "l", "e", " ", "'">> \o path_join(output_folder, ts_file)
        \o <<"'", "\n">>

\* line 59
ListDir ==
    /\ pc = "listdir"
    /\ list_calls' = list_calls + 1
    /\ ts_files' = sorted(TsListing(output_dir))
    /\ pc' = "open_list"
    /\ UNCHANGED <<compress, playlist, found_dir, ffmpeg_input, ffmpeg_output,
                   written, m3u8_content, http_status, ts_urls, max_workers,
                   num_threads, idle_semaphore, submitted, task, response,
                   failures, completed, snapshot, pending, progress_n,
                   output_dir, file_list, command, ffmpeg_runs, ffmpeg_result,
                   encode_reported, printed, uncaught, exit_status>>

OpenForWriting_Appends(file) == [exists |-> TRUE, open |-> TRUE, lines |-> file.lines]

\* open(list_file_name, 'w'): creates or truncates the manifest
OpenForWriting(file) == [exists |-> TRUE, open |-> TRUE, lines |-> <<>>]

\* with open(list_file_name, 'w') as file_list
OpenList ==
    /\ pc = "open_list"
    /\ file_list' = OpenForWriting(file_list)
    /\ written' = 0
    /\ pc' = "write_list"
    /\ UNCHANGED <<compress, playlist, found_dir, ffmpeg_input, ffmpeg_output,
                   list_calls, m3u8_content, http_status, ts_urls, max_workers,
                   num_threads, idle_semaphore, submitted, task, response,
                   failures, completed, snapshot, pending, progress_n,
                   output_dir, ts_files, command, ffmpeg_runs, ffmpeg_result,
                   encode_reported, printed, uncaught, exit_status>>

\* for ts_file in ts_files: file_list.write(...)
WriteList ==
    /\ pc = "write_list"
    /\ written < Len(ts_files)
    /\ file_list' = [file_list EXCEPT !.lines =
           Append(@, ManifestLine(OutputFolder, ts_files[written + 1]))]
    /\ written' = written + 1
    /\ UNCHANGED <<pc, compress, playlist, found_dir, ffmpeg_input,
                   ffmpeg_output, list_calls, m3u8_content, http_status,
                   ts_urls, max_workers, num_threads, idle_semaphore, submitted,
                   task, response, failures, completed, snapshot, pending,
                   progress_n, output_dir, ts_files, command, ffmpeg_runs,
                   ffmpeg_result, encode_reported, printed, uncaught,
                   exit_status>>

\* the end of the with block closes the manifest; line 64 prints
CloseList ==
    /\ pc = "write_list"
    /\ written = Len(ts_files)
    /\ file_list' = [file_list EXCEPT !.open = FALSE]
    /\ printed' = printed \cup {"created"}
    /\ pc' = "ffmpeg"
    /\ UNCHANGED <<compress, playlist, found_dir, ffmpeg_input, ffmpeg_output,
                   list_calls, written, m3u8_content, http_status, ts_urls,
                   max_workers, num_threads, idle_semaphore, submitted, task,
                   response, failures, completed, snapshot, pending, progress_n,
                   output_dir, ts_files, command, ffmpeg_runs, ffmpeg_result,
                   encode_reported, uncaught, exit_status>>

\* create_file_list('output') is called once more on the directory as it is.
CreateFileListAgain ==
    /\ pc = "ffmpeg"
    /\ list_calls < MaxCalls
    /\ pc' = "listdir"
    /\ UNCHANGED <<compress, playlist, found_dir, ffmpeg_input, ffmpeg_output,
                   list_calls, written, m3u8_content, http_status, ts_urls,
                   max_workers, num_threads, idle_semaphore, submitted, task,
                   response, failures, completed, snapshot, pending, progress_n,
                   output_dir, ts_files, file_list, command, ffmpeg_runs,
                   ffmpeg_result, encode_reported, printed, uncaught,
                   exit_status>>

\* The file names a working directory can hold: chunk files, an error page
\* saved under the name 404, a segment that is no '.ts' file.
DirNames == {SegA, SegB, PoolLine(1), NotFoundPage, <<"c", ".", "m", "4">>}

DirWith(names) == [exists |-> TRUE, files |-> [n \in names |-> [src |-> 0, data |-> "body"]]]

\* The manifest an earlier run left behind.
OldManifest ==
    [exists |-> TRUE, open |-> FALSE,
     lines |-> <<ManifestLine(OutputFolder, SegA), ManifestLine(OutputFolder, SegDirA)>>]

\* download_m3u8 has returned for a playlist without chunk lines, and the
\* working directory holds any of the files of DirNames.
InitAfterDownload(flags) ==
    /\ pc = "listdir"
    /\ compress \in flags
    /\ playlist = PoolAnswer(0)
    /\ max_workers = MaxWorkers
    /\ output_dir \in {DirWith(names) : names \in SUBSET DirNames}
    /\ found_dir = output_dir
    /\ m3u8_content = <<>>
    /\ http_status = 200
    /\ ts_urls = <<>>
    /\ num_threads = 0
    /\ idle_semaphore = 0
    /\ submitted = 0
    /\ task = <<>>
    /\ response = <<>>
    /\ failures = <<>>
    /\ completed = <<>>
    /\ snapshot = {}
    /\ pending = {}
    /\ progress_n = 0
    /\ ts_files = <<>>
    /\ file_list \in {[exists |-> FALSE, open |-> FALSE, lines |-> <<>>], OldManifest}
    /\ list_calls = 0
    /\ written = 0
    /\ ffmpeg_input = ""
    /\ ffmpeg_output = ""
    /\ command = <<>>
    /\ ffmpeg_runs = 0
    /\ ffmpeg_result = "none"
    /\ encode_reported = "none"
    /\ printed = {"downloaded"}
    /\ uncaught = "none"
    /\ exit_status = 0

InitManifest == InitAfterDownload({FALSE})

NextManifest == ListDir \/ OpenList \/ WriteList \/ CloseList \/ CreateFileListAgain

\* create_file_list alone, called up to MaxCalls times on an unchanged directory.
SpecManifest == InitManifest /\ [][NextManifest]_vars

(***************************************************************************)
(* execute_ffmpeg_command, lines 66-92, and the rest of __main__.          *)
(***************************************************************************)
Command_ReencodesAndCopies(input_file, output_file, compress_flag) ==
    <<"ffmpeg", "-f", "concat", "-safe", "0", "-i", input_file>>
    \o (IF compress_flag
        THEN <<"-c:v", "libx264", "-crf", "23", "-preset", "medium",
               "-c:a", "aac", "-b:a", "128k">>
        ELSE <<>>)
    \o <<"-c", "copy">>
    \o <<output_file>>

\* lines 67-85
Command(input_file, output_file, compress_flag) ==
    <<"ffmpeg", "-f", "concat", "-safe", "0", "-i", input_file>>
    \o (IF compress_flag
        THEN <<"-c:v", "libx264", "-crf", "23", "-preset", "medium",
               "-c:a", "aac", "-b:a", "128k">>
        ELSE <<"-c", "copy">>)
    \o <<output_file>>

AfterEncodeError_EndsRun == [reported |-> "raised", next |-> "exited"]

\* What the handler of line 90 does with a non-zero exit: it prints and lets
\* execute_ffmpeg_command return None, as after a zero exit.
AfterEncodeError == [reported |-> "returned", next |-> "compress_msg"]

\* execute_ffmpeg_command(input, output, flag): the command is built and
\* subprocess.run(command, check=True, ...) is called.  The encoder exits 0,
\* exits non-zero (CalledProcessError, caught), or cannot be started (OSError,
\* which no handler catches).
ExecuteFfmpegCommand(input, output, flag, r) ==
    /\ pc = "ffmpeg"
    /\ ffmpeg_input' = input
    /\ ffmpeg_output' = output
    /\ command' = Command(input, output, flag)
    /\ ffmpeg_runs' = ffmpeg_runs + 1
    /\ ffmpeg_result' = r
    /\ CASE r = "exit_zero" ->
              /\ printed' = printed \cup {"encoded"}
              /\ encode_reported' = "returned"
              /\ pc' = "compress_msg"
              /\ UNCHANGED <<uncaught, exit_status>>
         [] r = "exit_nonzero" ->
              /\ printed' = printed \cup {"encode_error"}
              /\ encode_reported' = AfterEncodeError.reported
              /\ pc' = AfterEncodeError.next
              /\ UNCHANGED <<uncaught, exit_status>>
         [] r = "not_started" ->
              /\ Crash("ffmpeg_launch")
              /\ encode_reported' = "raised"
              /\ UNCHANGED printed
    /\ UNCHANGED <<compress, playlist, found_dir, list_calls, written,
                   m3u8_content, http_status, ts_urls, max_workers, num_threads,
                   idle_semaphore, submitted, task, response, failures,
                   completed, snapshot, pending, progress_n, output_dir,
                   ts_files, file_list>>

\* line 102: execute_ffmpeg_command('file_list.txt', args.output, args.compress),
\* with --output left at its default
RunFfmpeg(r) == ExecuteFfmpegCommand("file_list.txt", "output.mp4", compress, r)

\* The paths execute_ffmpeg_command is given when it is called on its own.
Paths == {"file_list.txt", "l.txt", "d/l.txt", "output.mp4", "my video.mkv"}

InitCommand == InitAfterDownload(BOOLEAN)

NextCommand ==
    \/ ListDir
    \/ OpenList
    \/ WriteList
    \/ CloseList
    \/ \E input \in Paths, output \in Paths :
           \E r \in {"exit_zero", "exit_nonzero", "not_started"} :
               ExecuteFfmpegCommand(input, output, compress, r)

\* execute_ffmpeg_command on every pair of paths and either flag, after
\* create_file_list.
SpecCommand == InitCommand /\ [][NextCommand]_vars

\* lines 104-105
CompressMsg ==
    /\ pc = "compress_msg"
    /\ printed' = IF compress THEN printed \cup {"compressed"} ELSE printed
    /\ pc' = "rmtree"
    /\ UNCHANGED <<compress, playlist, found_dir, ffmpeg_input, ffmpeg_output,
                   list_calls, written, m3u8_content, http_status, ts_urls,
                   max_workers, num_threads, idle_semaphore, submitted, task,
                   response, failures, completed, snapshot, pending, progress_n,
                   output_dir, ts_files, file_list, command, ffmpeg_runs,
                   ffmpeg_result, encode_reported, uncaught, exit_status>>

Rmtree_LeavesDirectory ==
    /\ pc = "rmtree"
    /\ pc' = "exited"
    /\ exit_status' = 0
    /\ UNCHANGED <<compress, playlist, found_dir, ffmpeg_input, ffmpeg_output,
                   list_calls, written, m3u8_content, http_status, ts_urls,
                   max_workers, num_threads, idle_semaphore, submitted, task,
                   response, failures, completed, snapshot, pending, progress_n,
                   output_dir, ts_files, file_list, command, ffmpeg_runs,
                   ffmpeg_result, encode_reported, printed, uncaught>>

\* shutil.rmtree('output'); the script ends and the process exits with 0
Rmtree ==
    /\ pc = "rmtree"
    /\ output_dir' = AbsentDir
    /\ pc' = "exited"
    /\ exit_status' = 0
    /\ UNCHANGED <<compress, playlist, found_dir, ffmpeg_input, ffmpeg_output,
                   list_calls, written, m3u8_content, http_status, ts_urls,
                   max_workers, num_threads, idle_semaphore, submitted, task,
                   response, failures, completed, snapshot, pending, progress_n,
                   ts_files, file_list, command, ffmpeg_runs, ffmpeg_result,
                   encode_reported, printed, uncaught>>

\* The main thread inside download_m3u8.
DownloadM3u8 ==
    \/ FetchPlaylist
    \/ Makedirs
    \/ ParsePlaylist
    \/ Submit
    \/ AsCompleted
    \/ \E i \in Chunks : Progress(i)
    \/ LoopEnd
    \/ Shutdown

\* The main thread after download_m3u8.
AfterDownload ==
    \/ ListDir
    \/ OpenList
    \/ WriteList
    \/ CloseList
    \/ \E r \in {"exit_zero", "exit_nonzero", "not_started"} : RunFfmpeg(r)
    \/ CompressMsg
    \/ Rmtree

Next == DownloadM3u8 \/ AfterDownload \/ Worker

Spec == Init /\ [][Next]_vars


\* download_m3u8 alone, with its worker threads.
NextDownload == DownloadM3u8 \/ Worker

\* download_m3u8 on pools narrower than the playlist is long.
SpecPool == InitPool /\ [][NextDownload]_vars

\* Some thread that can take a step is scheduled, and every request and file
\* operation ends by returning or raising.
Fairness == WF_vars(NextDownload)

\* Runs on playlists of up to MaxLines different chunk lines, into a fresh
\* directory and without re-encoding.
InitFair == InitWith({PoolAnswer(n) : n \in 0..MaxLines}, {FALSE}, {MaxWorkers},
                     {AbsentDir})

SpecFair == InitFair /\ [][NextDownload]_vars /\ Fairness

\* The whole run under the same scheduling: the main thread goes on after
\* download_m3u8, and the encoder ends by exiting or by failing to start.
FairnessRun == WF_vars(Next)

SpecFairRun == InitFair /\ [][Next]_vars /\ FairnessRun

(***************************************************************************)
(* The claims.                                                             *)
(***************************************************************************)
\* download_m3u8 has returned (line 56 is its last statement).
Returned == "downloaded" \in printed

Succeeded(i) == task[i] = "done" /\ failures[i] = "none"
Failed(i) == task[i] = "done" /\ failures[i] # "none"

\* C1: a chunk whose download fails (the request or the file operation raises)
\* is recorded as failed inside its unit and its future ends normally; no
\* exception reaches the coordinator through future.result(); and when
\* download_m3u8 has returned every chunk reference was dispatched and has its
\* outcome.
C1_FailureIsolation ==
    /\ uncaught # "future_result"
    /\ \A i \in Chunks : task[i] # "raised"
    /\ \A i \in Chunks : failures[i] # "none" => task[i] = "done"
    /\ Returned => /\ submitted = Len(ts_urls)
                   /\ \A i \in Chunks : Succeeded(i) \/ Failed(i)

\* download_m3u8 returned although one chunk failed, and another succeeded.
C1_Witness ==
    /\ Returned
    /\ \E i, j \in Chunks : Failed(i) /\ Succeeded(j)

\* C2: at any moment the number of chunk downloads in flight is at most the
\* width of the worker pool.
C2_ConcurrencyBound == Cardinality(InFlight) <= max_workers

\* The pool is full and a chunk waits in the queue.
C2_Witness ==
    /\ Cardinality(InFlight) = max_workers
    /\ \E i \in Chunks : task[i] = "queued"

\* The chunk lines of the playlist the server answered with.
ChunkLineCount ==
    Cardinality({j \in 1..Len(playlist.lines) :
                    playlist.lines[j] # <<>> /\ playlist.lines[j][1] # "#"})

\* C3: no chunk download is dispatched before the playlist is fetched whole and
\* parsed; create_file_list does not start before every chunk was dispatched
\* and has ended; the encoder does not run before the manifest is written in
\* full and closed.
C3_StageOrder ==
    /\ (\E i \in DOMAIN task : task[i] # "unsubmitted") =>
           /\ pc \notin {"fetch_playlist", "makedirs", "parse"}
           /\ m3u8_content = Text(playlist.lines, playlist.eol)
           /\ Len(ts_urls) = ChunkLineCount
    /\ (pc \in {"open_list", "write_list"} \/ file_list.exists) =>
           /\ submitted = Len(ts_urls)
           /\ \A i \in Chunks : task[i] = "done"
    /\ ffmpeg_runs > 0 =>
           /\ file_list.exists /\ ~file_list.open
           /\ Len(file_list.lines) = Len(ts_files)

\* The encoder has run on a manifest of two lines.
C3_Witness ==
    /\ ffmpeg_runs = 1
    /\ Len(file_list.lines) = 2
    /\ Len(ts_urls) = 2

\* How many chunk lines the playlist has up to line j.
Rank(j) ==
    Cardinality({k \in 1..j : playlist.lines[k] # <<>> /\ playlist.lines[k][1] # "#"})

\* C4: the parser yields one chunk reference for every line that is not empty
\* and does not start with '#', in the order of the lines, and none for a
\* blank line or a directive.
C4_ParserKeepsChunkLines ==
    pc = "submit" =>
        /\ Len(ts_urls) = ChunkLineCount
        /\ \A j \in 1..Len(playlist.lines) :
               LET line == playlist.lines[j] IN
               (line # <<>> /\ line[1] # "#") =>
                   ts_urls[Rank(j)] = urljoin(M3u8Url, line)

\* A playlist with a blank line, a directive and two different chunk lines.
C4_Witness ==
    /\ pc = "submit"
    /\ Len(ts_urls) = 2
    /\ ts_urls[1] # ts_urls[2]
    /\ Blank \in Range(playlist.lines)
    /\ Directive \in Range(playlist.lines)
    /\ playlist.eol = CRLF

\* The manifest is written and closed.
ManifestBuilt == file_list.exists /\ ~file_list.open

\* The file names of the chunks downloaded without a failure.
DownloadedNames == {Filename(i) : i \in {j \in Chunks : Succeeded(j)}}

\* C5: once create_file_list has run, the manifest has one line for every
\* successfully downloaded chunk file and no other line, in the lexicographic
\* order of the file names.
C5_ManifestListsDownloads ==
    ManifestBuilt =>
        file_list.lines =
            [k \in 1..Cardinality(DownloadedNames) |->
                ManifestLine(OutputFolder, sorted(DownloadedNames)[k])]

\* C6: the process exit status is not zero when the playlist request raised
\* and when the encoder exited with a non-zero status.
C6_ExitStatusTellsFailure ==
    (pc = "exited" /\ (playlist.outcome = "raises" \/ ffmpeg_result = "exit_nonzero"))
        => exit_status # 0

\* C7: when the encoder exits non-zero, execute_ffmpeg_command reports the
\* failure to its caller, the run does not go on as after a success (no
\* "Video compressed" message), the encoder is not run again, and the run ends
\* as failed.
C7_EncodeFailureIsTerminal ==
    ffmpeg_result = "exit_nonzero" =>
        /\ encode_reported # "returned"
        /\ "compressed" \notin printed
        /\ ffmpeg_runs = 1
        /\ pc = "exited" => exit_status # 0

\* C8: when the playlist request raises or answers with a status other than
\* 200, download_m3u8 fails and the run ends there: no chunk download is
\* dispatched, no manifest is written and the encoder is not run.
C8_FetchFailureAborts ==
    (pc # "fetch_playlist" /\ (playlist.outcome = "raises" \/ playlist.status # 200)) =>
        /\ uncaught = "playlist_fetch"
        /\ pc = "exited"
        /\ submitted = 0
        /\ ~file_list.exists
        /\ ffmpeg_runs = 0

\* The counter against the futures: every finished future is either counted
\* or still waits to be yielded, the counter never exceeds the number of
\* finished futures, and it equals the number of chunk references when
\* download_m3u8 has returned.
ProgressCounts ==
    /\ progress_n + Len(completed) = Cardinality({i \in Chunks : task[i] = "done"})
    /\ progress_n <= Cardinality({i \in Chunks : task[i] = "done"})
    /\ Returned => progress_n = Len(ts_urls)

\* C9 as stated: every increment is by one and is for the unit that finished
\* first among those not yet counted (completion order), and the counter
\* agrees with the finished units.
C9_IncrementsInCompletionOrder ==
    /\ [][progress_n' # progress_n =>
             /\ progress_n' = progress_n + 1
             /\ completed # <<>>
             /\ completed' = Tail(completed)]_vars
    /\ []ProgressCounts

\* C9 as amended: the units that had finished when as_completed was entered
\* are counted first, in any order; every other unit is counted in completion
\* order; one increment per unit, and the counter agrees with the finished
\* units.
C9_IncrementsPerCompletedUnit ==
    /\ [][progress_n' # progress_n =>
             /\ progress_n' = progress_n + 1
             /\ IF snapshot # {}
                THEN \E i \in snapshot :
                         /\ snapshot' = snapshot \ {i}
                         /\ completed' = SelectSeq(completed, LAMBDA j : j # i)
                ELSE /\ completed # <<>>
                     /\ completed' = Tail(completed)]_vars
    /\ []ProgressCounts

\* Two units finished after as_completed was entered and wait to be counted,
\* the later-submitted one first.
C9_Witness ==
    /\ pc = "progress"
    /\ snapshot = {}
    /\ completed = <<2, 1>>

\* C10: under fair scheduling download_m3u8, once it has its chunk list,
\* returns; and when it has returned every chunk was dispatched and its unit
\* has ended.
C10_ReturnsWhenAllDone ==
    /\ (pc = "submit") ~> Returned
    /\ [](Returned => /\ submitted = Len(ts_urls)
                      /\ \A i \in Chunks : task[i] = "done")

\* download_m3u8 returned after its first unit failed and its second succeeded.
C10_Witness ==
    /\ Returned
    /\ Len(ts_urls) = 2
    /\ Failed(1)
    /\ Succeeded(2)

\* The manifest that lists the names S.
ManifestOf(S) ==
    [k \in 1..Cardinality(S) |-> ManifestLine(OutputFolder, sorted(S)[k])]

\* The chunks whose open(output_path, 'wb') returned, by their recorded outcome.
OpenedChunks == {i \in Chunks : task[i] = "done" /\ failures[i] \in {"none", "write"}}

\* The '.ts' names that the playlist, the directory the run found and the
\* outcome of every chunk determine, whatever the interleaving was.
DeterminedNames ==
    {f \in DOMAIN found_dir.files \cup {Filename(i) : i \in OpenedChunks} :
        endswith(f, <<".", "t", "s">>)}

\* C11: the manifest is a function of the playlist, of the directory the run
\* found and of the outcome of every chunk (succeeded, request raised, open
\* raised, write raised) alone: every interleaving of the downloads with these
\* outcomes writes the same lines in the same order.
C11_ManifestIndependentOfInterleaving ==
    ManifestBuilt => file_list.lines = ManifestOf(DeterminedNames)

\* Two chunks of the same file name both succeeded, the later-submitted one
\* ended first (the first one wrote the file last), and the manifest is built.
C11_Witness ==
    /\ ManifestBuilt
    /\ Len(ts_urls) = 2
    /\ Succeeded(1) /\ Succeeded(2)
    /\ Filename(1) = Filename(2)
    /\ output_dir.exists
    /\ output_dir.files[Filename(1)].src = 1
    /\ Len(file_list.lines) = 1

\* The last path segments of the chunk references are pairwise distinct.
DistinctBasenames ==
    \A i, j \in Chunks :
        i # j => basename(urlparse_path(ts_urls[i])) # basename(urlparse_path(ts_urls[j]))

\* Workers i and j both hold the same file open for writing.
WriteSameFile(i, j) ==
    /\ i # j
    /\ task[i] = "writing"
    /\ task[j] = "writing"
    /\ OutputPath(i) = OutputPath(j)

\* C12: whenever two workers write the same file, their references have the
\* same last path segment; so when the last path segments of the chunk
\* references are pairwise distinct, no two workers write the same file.
C12_NoWriteContention ==
    \A i, j \in Chunks :
        WriteSameFile(i, j) =>
            /\ basename(urlparse_path(ts_urls[i])) = basename(urlparse_path(ts_urls[j]))
            /\ ~DistinctBasenames

\* Two workers write at the same time, each its own file.
C12_Witness ==
    /\ Len(ts_urls) = 2
    /\ task[1] = "writing" /\ task[2] = "writing"
    /\ DistinctBasenames
    /\ OutputPath(1) # OutputPath(2)
    /\ {Filename(1), Filename(2)} \subseteq DOMAIN output_dir.files

\* C13: a failed chunk never ends the run: no exception of a chunk reaches the
\* main thread; once a chunk has failed, however many do, the run gets to a
\* built manifest and to one invocation of the encoder; and the encoder is
\* never invoked twice.
C13_ChunkFailuresDoNotEscalate ==
    /\ [](uncaught # "future_result")
    /\ (\E i \in Chunks : Failed(i)) ~> (ManifestBuilt /\ ffmpeg_runs = 1)
    /\ [](ffmpeg_runs <= 1)

\* Every chunk of a playlist of two failed, and the encoder was invoked once on
\* the manifest that was built.
C13_Witness ==
    /\ Len(ts_urls) = 2
    /\ Failed(1) /\ Failed(2)
    /\ ManifestBuilt
    /\ ffmpeg_runs = 1
    /\ ffmpeg_result = "exit_zero"

\* C14: whenever create_file_list has returned, on its first call or on a
\* later call on the unchanged directory, and whatever manifest it found, the
\* manifest holds exactly the lines of the sorted '.ts' names of the
\* directory: a second call leaves the same lines in the same order, none
\* twice.
C14_ManifestIdempotent ==
    /\ output_dir = found_dir
    /\ (pc = "ffmpeg" /\ list_calls >= 1) =>
           /\ ManifestBuilt
           /\ file_list.lines = ManifestOf(TsListing(output_dir))

\* The second call has returned for a directory with two '.ts' files and two
\* other files.
C14_Witness ==
    /\ pc = "ffmpeg"
    /\ list_calls = 2
    /\ Len(file_list.lines) = 2
    /\ Cardinality(DOMAIN output_dir.files) = 4

\* The run went through every stage: the script ended without an exception.
CompletedAllStages == pc = "exited" /\ uncaught = "none"

\* C15: after a run that went through every stage the working directory does
\* not exist, with none of its files, and the manifest exists, closed, with
\* the lines create_file_list wrote; the cleanup step leaves the manifest as
\* it was.
C15_CleanupAsymmetry ==
    /\ [](CompletedAllStages =>
             /\ ~output_dir.exists
             /\ DOMAIN output_dir.files = {}
             /\ ManifestBuilt
             /\ file_list.lines = ManifestOf(Range(ts_files)))
    /\ [][pc = "rmtree" => file_list' = file_list]_vars

\* A run that downloaded two chunks into a directory that held a file has
\* ended after its cleanup.
C15_Witness ==
    /\ CompletedAllStages
    /\ ffmpeg_result = "exit_zero"
    /\ found_dir = StaleDir
    /\ Len(ts_urls) = 2
    /\ Succeeded(1) /\ Succeeded(2)
    /\ Len(file_list.lines) >= 2
    /\ ~output_dir.exists

ReencodeOptions ==
    <<"-c:v", "libx264", "-crf", "23", "-preset", "medium", "-c:a", "aac", "-b:a", "128k">>

\* C16: the command execute_ffmpeg_command has built is the concat prefix
\* reading the manifest it was given, then the re-encode options when the
\* flag is set and the stream-copy option when it is not (one of the two,
\* never both), then the output path it was given as the last argument.
C16_CommandShape ==
    ffmpeg_runs > 0 =>
        LET n == Len(command)
            options == SubSeq(command, 8, n - 1)
        IN  /\ n >= 8
            /\ SubSeq(command, 1, 7) =
                   <<"ffmpeg", "-f", "concat", "-safe", "0", "-i", ffmpeg_input>>
            /\ command[n] = ffmpeg_output
            /\ compress => options = ReencodeOptions
            /\ ~compress => options = <<"-c", "copy">>
            /\ ("libx264" \in Range(options)) # ("copy" \in Range(options))

\* The command was built with the re-encode flag set, for a manifest path and
\* an output path other than the defaults.
C16_Witness ==
    /\ ffmpeg_runs = 1
    /\ compress
    /\ ffmpeg_input = "d/l.txt"
    /\ ffmpeg_output = "my video.mkv"
    /\ Len(command) = 18

\* The request of chunk i raised.
FetchFailed(i) == task[i] = "done" /\ failures[i] = "network"

\* C17: the step in which the request of a chunk raises leaves the working
\* directory as it was; every file this run wrote is the file of a chunk whose
\* request returned a response; and the manifest names the file of a chunk
\* whose request raised only when the run found that file or another chunk
\* of the same file name opened it.
C17_FetchFailureWritesNothing ==
    /\ [][(\E i \in Chunks : ~FetchFailed(i) /\ FetchFailed(i)') =>
             output_dir' = output_dir]_vars
    /\ [](\A n \in DOMAIN output_dir.files :
             LET s == output_dir.files[n].src IN
             s # 0 => /\ s \in Chunks
                      /\ response[s] # 0
                      /\ ~FetchFailed(s)
                      /\ Filename(s) = n)
    /\ [](\A i \in Chunks :
             (/\ FetchFailed(i)
              /\ ManifestBuilt
              /\ ManifestLine(OutputFolder, Filename(i)) \in Range(file_list.lines)) =>
                 \/ Filename(i) \in DOMAIN found_dir.files
                 \/ \E j \in OpenedChunks : j # i /\ Filename(j) = Filename(i))

\* The request of the first chunk raised, the second chunk was saved, and the
\* manifest of the fresh directory has the one line of the second.
C17_Witness ==
    /\ Len(ts_urls) = 2
    /\ FetchFailed(1)
    /\ Succeeded(2)
    /\ Filename(1) # Filename(2)
    /\ found_dir = AbsentDir
    /\ pc = "ffmpeg"
    /\ DOMAIN output_dir.files = {Filename(2)}
    /\ file_list.lines = <<ManifestLine(OutputFolder, Filename(2))>>

\* The working directory is gone, with every file it held.
DirectoryDeleted == ~output_dir.exists /\ DOMAIN output_dir.files = {}

\* C18 as stated: every run that got past the download stage ends with the
\* working directory deleted and the manifest left.
C18_DirectoryDeletedAfterDownload ==
    (pc = "exited" /\ Returned) => (DirectoryDeleted /\ ManifestBuilt)

\* C18 as amended: a run whose encoder was started and exited, with zero or
\* with non-zero status, ends with the working directory deleted and the
\* manifest left; a run whose encoder could not be started ends by the
\* uncaught exception, before the cleanup, with the working directory and the
\* chunk files still there.
C18_DirectoryDeletedWhenEncoderExited ==
    /\ (pc = "exited" /\ ffmpeg_result \in {"exit_zero", "exit_nonzero"}) =>
           (DirectoryDeleted /\ ManifestBuilt /\ uncaught = "none")
    /\ (pc = "exited" /\ ffmpeg_result = "not_started") =>
           /\ uncaught = "ffmpeg_launch"
           /\ exit_status = 1
           /\ output_dir.exists
           /\ \A i \in OpenedChunks : Filename(i) \in DOMAIN output_dir.files

\* The encoder exited non-zero after two chunks were saved; the run has ended
\* with the directory deleted and the manifest of two lines left.
C18_Witness ==
    /\ pc = "exited"
    /\ ffmpeg_result = "exit_nonzero"
    /\ Len(ts_urls) = 2
    /\ Succeeded(1) /\ Succeeded(2)
    /\ DirectoryDeleted
    /\ ManifestBuilt
    /\ Len(file_list.lines) >= 2

\* C19: when the playlist request raises, the run ends there by the uncaught
\* exception and the files are as the run found them: the working directory
\* is not created nor changed, no chunk is dispatched, no manifest is written
\* and the encoder is not invoked.
C19_FetchRaisesLeavesFilesystem ==
    playlist.outcome = "raises" =>
        /\ pc \in {"fetch_playlist", "exited"}
        /\ pc = "exited" => (uncaught = "playlist_fetch" /\ exit_status = 1)
        /\ output_dir = found_dir
        /\ submitted = 0
        /\ ts_urls = <<>>
        /\ ~file_list.exists
        /\ file_list.lines = <<>>
        /\ ffmpeg_runs = 0

\* The playlist request raised and the run has ended; there is no working
\* directory, as there was none before.
C19_Witness ==
    /\ playlist.outcome = "raises"
    /\ pc = "exited"
    /\ uncaught = "playlist_fetch"
    /\ found_dir = AbsentDir
    /\ ~output_dir.exists

\* The request of chunk i returned a response, of whatever status.
Answered(i) == response[i] # 0

\* C20: a chunk whose request returned a response is never failed for the
\* status of the response: the only causes of failure are a request, an open
\* or a write that raised, and a request that raised returned no response.
\* When open and write succeed the chunk counts as downloaded whatever the
\* status was: when download_m3u8 has returned its file is there, with the
\* body it wrote, and when create_file_list has returned the manifest lists
\* the file if its name ends in '.ts'.
C20_ChunkStatusIgnored ==
    \A i \in Chunks :
        /\ failures[i] \in {"none", "network", "open", "write"}
        /\ failures[i] = "network" => ~Answered(i)
        /\ (task[i] = "done" /\ failures[i] = "none") => Answered(i)
        /\ (pc = "listdir" /\ Answered(i) /\ Succeeded(i)) =>
               /\ Filename(i) \in DOMAIN output_dir.files
               /\ output_dir.files[Filename(i)].src = i =>
                      output_dir.files[Filename(i)].data = "body"
        /\ (pc = "ffmpeg" /\ Answered(i) /\ Succeeded(i)
               /\ endswith(Filename(i), <<".", "t", "s">>)) =>
               ManifestLine(OutputFolder, Filename(i)) \in Range(file_list.lines)

\* The first chunk was answered with status 404 and the second with 200; both
\* were saved and the manifest lists both.
C20_Witness ==
    /\ Len(ts_urls) = 2
    /\ response = <<404, 200>>
    /\ Succeeded(1) /\ Succeeded(2)
    /\ found_dir = AbsentDir
    /\ pc = "ffmpeg"
    /\ output_dir.files[Filename(1)].data = "body"
    /\ Len(file_list.lines) = 2
====
